---- MODULE Spec2Model ----
(***************************************************************************)
(* minTorrent: the peer wire protocol engine of src/minTorrent/protocol.py *)
(* and the tracker response of src/minTorrent/tracker.py.                  *)
(*                                                                         *)
(*   SpecFramer     PeerStreamIterator alone, fed a byte stream that is    *)
(*                  the concatenation of wire messages, cut into reader    *)
(*                  chunks in every possible way.                          *)
(*   Spec           one PeerConnection worker (_start) with its queue,     *)
(*                  the remote peer and the callers of stop().             *)
(*   SpecLive       Spec with the event loop's fairness: a task that can   *)
(*                  be resumed is resumed.                                 *)
(*   SpecCancel     Spec with a client that also calls cancel().           *)
(*   SpecCodec      encode and decode of the message classes.              *)
(*   SpecHandshake  Handshake.encode and Handshake.decode.                 *)
(*   SpecTracker    TrackerResponse's peer list.                           *)
(*   SpecPeerId     _calculate_peer_id.                                    *)
(*   SpecManager    the piece manager, as it is described.                 *)
(***************************************************************************)
EXTENDS Integers, Sequences, FiniteSets, TLC

VARIABLES
    legacy,      \* TRUE: interpreter where asyncio's CancelledError is the
                 \* concurrent.futures class imported at protocol.py:5 (<= 3.7)
    pc,          \* where the worker task (or the framer) is suspended
    outcome,     \* how the worker task ended: "pending" until it has
    cancelReq,   \* future.cancel() was called and is not yet delivered
    my_state,    \* PeerConnection.my_state, the list of tags
    queue,       \* number of peers waiting in the asyncio.Queue
    unfinished,  \* the queue's count of unfinished tasks (task_done)
    enqueued,    \* peers put on the queue so far
    writer,      \* PeerConnection.writer: "none", "open", "closed"
    remote_id,   \* PeerConnection.remote_id (<<>> for None)
    buf,         \* _handshake's buf, then _start's buffer (the spillover)
    tries,       \* _handshake's tries
    buffer,      \* PeerStreamIterator.buffer
    gen_eof,     \* the generator is suspended at the yield of its
                 \* end-of-stream branch (protocol.py:259)
    ev,          \* what the latest step did (observation)
    lastExit,    \* why the latest connection attempt ended (observation)
    conn,        \* what has happened on the current connection (observation)
    wire,        \* SpecFramer: bytes the remote has still to send
    msgs,        \* SpecFramer: the messages the remote sends
    yielded,     \* SpecFramer: the messages anext has yielded
    arg,         \* the argument of the function a specification applies
    res,         \* what the function has given for it so far
    pm           \* SpecManager: the piece manager, its clock and the disk

vars == <<legacy, pc, outcome, cancelReq, my_state, queue, unfinished,
          enqueued, writer, remote_id, buf, tries, buffer, gen_eof,
          ev, lastExit, conn, wire, msgs, yielded, arg, res, pm>>

\* the variables of the specifications that do not run the worker
auxVars == <<arg, res, pm>>

sessionVars == <<legacy, outcome, cancelReq, my_state, queue, unfinished,
                 enqueued, writer, remote_id, buf, tries, gen_eof,
                 ev, lastExit, conn>>

framerVars == <<wire, msgs, yielded>>

(***************************************************************************)
(* Bounds of the model.                                                    *)
(***************************************************************************)
MaxMsgs == 3
MaxPeers == 2
MaxStops == 2
MaxChoked == 2
MaxRecords == 2
MaxTicks == 3

(***************************************************************************)
(* Bytes and Python's slices.                                              *)
(***************************************************************************)
Min(a, b) == IF a < b THEN a ELSE b

\* s[a:b] of a bytes object (0-based, clamped to the length)
Slice(s, a, b) ==
    IF a >= Min(b, Len(s)) THEN <<>> ELSE SubSeq(s, a + 1, Min(b, Len(s)))

\* s[a:]
SliceFrom(s, a) == Slice(s, a, Len(s))

\* struct.unpack(">I", b)[0] for a 4-byte b
U32(b) == b[1] * 16777216 + b[2] * 65536 + b[3] * 256 + b[4]

\* struct.pack(">I", n)
P32(n) == << (n \div 16777216) % 256, (n \div 65536) % 256,
             (n \div 256) % 256, n % 256 >>

\* struct.unpack("b", b)[0]: a signed byte
SignedByte(x) == IF x >= 128 THEN x - 256 ELSE x

RECURSIVE Concat(_)
Concat(ss) == IF ss = <<>> THEN <<>> ELSE Head(ss) \o Concat(Tail(ss))

(***************************************************************************)
(* Messages. None is Python's None.                                        *)
(***************************************************************************)
None == [type |-> "None"]
KeepAlive == [type |-> "KeepAlive"]
Choke == [type |-> "Choke"]
Unchoke == [type |-> "Unchoke"]
Interested == [type |-> "Interested"]
NotInterested == [type |-> "NotInterested"]
Have(i) == [type |-> "Have", piece_index |-> i]
BitField(bits) == [type |-> "BitField", bitfield |-> bits]
Request(i, b, l) == [type |-> "Request", index |-> i, begin |-> b, length |-> l]
Piece(i, b, blk) == [type |-> "Piece", index |-> i, begin |-> b, block |-> blk]
Cancel(i, b, l) == [type |-> "Cancel", index |-> i, begin |-> b, length |-> l]
Port(p) == [type |-> "Port", port |-> p]

\* The message ids of class PeerMessage
IdChoke == 0
IdUnchoke == 1
IdInterested == 2
IdNotInterested == 3
IdHave == 4
IdBitField == 5
IdRequest == 6
IdPiece == 7
IdCancel == 8
IdPort == 9

(***************************************************************************)
(* What a remote peer puts on the wire for a message: the formats the      *)
(* message classes document, <length prefix><message ID><payload>.         *)
(***************************************************************************)
Wire(m) ==
    CASE m.type = "KeepAlive" -> P32(0)
      [] m.type = "Choke" -> P32(1) \o <<IdChoke>>
      [] m.type = "Unchoke" -> P32(1) \o <<IdUnchoke>>
      [] m.type = "Interested" -> P32(1) \o <<IdInterested>>
      [] m.type = "NotInterested" -> P32(1) \o <<IdNotInterested>>
      [] m.type = "Have" -> P32(5) \o <<IdHave>> \o P32(m.piece_index)
      [] m.type = "BitField" ->
            P32(1 + Len(m.bitfield)) \o <<IdBitField>> \o m.bitfield
      [] m.type = "Request" ->
            P32(13) \o <<IdRequest>> \o P32(m.index) \o P32(m.begin)
                \o P32(m.length)
      [] m.type = "Piece" ->
            P32(9 + Len(m.block)) \o <<IdPiece>> \o P32(m.index)
                \o P32(m.begin) \o m.block
      [] m.type = "Cancel" ->
            P32(13) \o <<IdCancel>> \o P32(m.index) \o P32(m.begin)
                \o P32(m.length)
      [] m.type = "Port" ->
            P32(3) \o <<IdPort>> \o <<(m.port \div 256) % 256, m.port % 256>>

WireAll(ms) == Concat([i \in 1..Len(ms) |-> Wire(ms[i])])

(***************************************************************************)
(* The decoders. Each gives [raised, message]: raised is struct.error, an  *)
(* Exception, from struct.unpack on data of the wrong size.                *)
(***************************************************************************)
Raised == [raised |-> TRUE, message |-> None]
Decoded(m) == [raised |-> FALSE, message |-> m]

\* Have.decode: struct.unpack('>IbI', data)
HaveDecode(data) ==
    IF Len(data) # 9 THEN Raised
    ELSE Decoded(Have(U32(Slice(data, 5, 9))))

\* BitField.decode: struct.unpack(">Ib" + str(message_length-1) + "s", data)
BitFieldDecode(data) ==
    LET message_length == U32(Slice(data, 0, 4)) IN
    IF Len(data) # 4 + 1 + (message_length - 1) THEN Raised
    ELSE Decoded(BitField(Slice(data, 5, Len(data))))

\* Request.decode: struct.unpack('>IbIII', data)
RequestDecode(data) ==
    IF Len(data) # 17 THEN Raised
    ELSE Decoded(Request(U32(Slice(data, 5, 9)), U32(Slice(data, 9, 13)),
                         U32(Slice(data, 13, 17))))

\* Piece.decode: struct.unpack('>IbII' + str(length - 9) + "s", data[:length+4])
PieceDecode(data) ==
    LET length == U32(Slice(data, 0, 4))
        d == Slice(data, 0, length + 4)
    IN  IF length - 9 < 0 \/ Len(d) # 13 + (length - 9) THEN Raised
        ELSE Decoded(Piece(U32(Slice(d, 5, 9)), U32(Slice(d, 9, 13)),
                           Slice(d, 13, Len(d))))

\* Cancel.decode: struct.unpack('>IbIII', data)
CancelDecode(data) ==
    IF Len(data) # 17 THEN Raised
    ELSE Decoded(Cancel(U32(Slice(data, 5, 9)), U32(Slice(data, 9, 13)),
                        U32(Slice(data, 13, 17))))

(***************************************************************************)
(* The encoders. Each gives [raised, none, bytes]: raised is struct.error, *)
(* none is a return of None (PeerMessage.encode, which the classes without *)
(* an encode of their own inherit).                                        *)
(***************************************************************************)
\* the range of the 'I' format is 0..2^32-1; its upper end is above every
\* integer of this model (field values stay below 2^31)
InU32(n) == n >= 0

EncRaised == [raised |-> TRUE, none |-> FALSE, bytes |-> <<>>]
EncNone == [raised |-> FALSE, none |-> TRUE, bytes |-> <<>>]
Encoded(b) == [raised |-> FALSE, none |-> FALSE, bytes |-> b]

\* PeerMessage.encode: pass
PeerMessageEncode(m) == EncNone

\* Interested.encode: struct.pack('>Ib', 1, PeerMessage.Interested)
InterestedEncode(m) == Encoded(P32(1) \o <<IdInterested>>)

\* Have.encode: struct.pack('>IbI', 5, PeerMessage.Have, piece_index)
HaveEncode(m) ==
    IF ~InU32(m.piece_index) THEN EncRaised
    ELSE Encoded(P32(5) \o <<IdHave>> \o P32(m.piece_index))

\* BitField.encode: the argument of the 's' format is self.bitfield, a
\* bitstring.BitArray and not a bytes object, which struct.pack refuses
BitFieldEncode(m) == EncRaised

\* Request.encode: struct.pack(">IbIII", 13, PeerMessage.Request, ...)
RequestEncode(m) ==
    IF ~(InU32(m.index) /\ InU32(m.begin) /\ InU32(m.length)) THEN EncRaised
    ELSE Encoded(P32(13) \o <<IdRequest>> \o P32(m.index) \o P32(m.begin)
                    \o P32(m.length))

\* Piece.encode: struct.pack(">IbII" + str(len(block)) + "s", ...)
PieceEncode(m) ==
    LET message_length == 9 + Len(m.block) IN
    IF ~(InU32(m.index) /\ InU32(m.begin)) THEN EncRaised
    ELSE Encoded(P32(message_length) \o <<IdPiece>> \o P32(m.index)
                    \o P32(m.begin) \o m.block)

\* Cancel.encode: struct.pack('>IbIII', 13, PeerMessage.Cancel, ...)
CancelEncode(m) ==
    IF ~(InU32(m.index) /\ InU32(m.begin) /\ InU32(m.length)) THEN EncRaised
    ELSE Encoded(P32(13) \o <<IdCancel>> \o P32(m.index) \o P32(m.begin)
                    \o P32(m.length))

\* m.encode(), by the class of m
Encode(m) ==
    CASE m.type = "Interested" -> InterestedEncode(m)
      [] m.type = "Have" -> HaveEncode(m)
      [] m.type = "BitField" -> BitFieldEncode(m)
      [] m.type = "Request" -> RequestEncode(m)
      [] m.type = "Piece" -> PieceEncode(m)
      [] m.type = "Cancel" -> CancelEncode(m)
      [] OTHER -> PeerMessageEncode(m)

(***************************************************************************)
(* PeerStreamIterator.parse on buffer b: [raised, message, buffer], the    *)
(* buffer being self.buffer after the call.                                *)
(***************************************************************************)
header_length == 4

\* the chain of "message_id is PeerMessage.X" tests; _consume() runs before
\* the decoder, so the frame is gone from the buffer also when it raises
ParseFrame(b, message_length) ==
    LET message_id == SignedByte(b[5])
        consumed == SliceFrom(b, header_length + message_length)
        data == Slice(b, 0, header_length + message_length)
        Got(r) == [raised |-> r.raised, message |-> r.message,
                   buffer |-> consumed]
    IN  CASE message_id = IdBitField -> Got(BitFieldDecode(data))
          [] message_id = IdInterested -> Got(Decoded(Interested))
          [] message_id = IdNotInterested -> Got(Decoded(NotInterested))
          [] message_id = IdChoke -> Got(Decoded(Choke))
          [] message_id = IdUnchoke -> Got(Decoded(Unchoke))
          [] message_id = IdHave -> Got(HaveDecode(data))
          [] message_id = IdPiece -> Got(PieceDecode(data))
          [] message_id = IdRequest -> Got(RequestDecode(data))
          [] message_id = IdCancel -> Got(CancelDecode(data))
          [] OTHER -> [raised |-> FALSE, message |-> None, buffer |-> b]

\* the test that a whole frame is buffered (protocol.py:297)
FrameBuffered(b, message_length) == Len(b) >= message_length

\* what parse does with a zero length prefix (protocol.py:294-295)
ParseKeepAlive(b) == [raised |-> FALSE, message |-> KeepAlive, buffer |-> b]

Parse(b) ==
    IF Len(b) > 4
    THEN LET message_length == U32(Slice(b, 0, 4)) IN
         IF message_length = 0 THEN ParseKeepAlive(b)
         ELSE IF FrameBuffered(b, message_length)
              THEN ParseFrame(b, message_length)
              ELSE [raised |-> FALSE, message |-> None, buffer |-> b]
    ELSE [raised |-> FALSE, message |-> None, buffer |-> b]

(***************************************************************************)
(* One turn of anext's loop, from the return of reader.read to the next    *)
(* suspension: [raised, message, buffer, eof]. message # None is a yield.  *)
(* raised: parse raised an Exception, which anext turns into               *)
(* StopAsyncIteration (protocol.py:268-270).   eof: the turn is the        *)
(* end-of-stream branch, which raises StopAsyncIteration after its yield.  *)
(***************************************************************************)
\* data non-empty (protocol.py:249-253)
AnextData(b, data) ==
    LET r == Parse(b \o data) IN
    [raised |-> r.raised, message |-> r.message, buffer |-> r.buffer,
     eof |-> FALSE]

\* data empty (protocol.py:254-260)
AnextEof(b) ==
    IF b # <<>>
    THEN LET r == Parse(b) IN
         [raised |-> r.raised, message |-> r.message, buffer |-> r.buffer,
          eof |-> TRUE]
    ELSE [raised |-> FALSE, message |-> None, buffer |-> b, eof |-> TRUE]

(***************************************************************************)
(* The handshake message.                                                  *)
(***************************************************************************)
HandshakeLength == 68

\* b'BitTorrent protocol'
Pstr == <<66, 105, 116, 84, 111, 114, 114, 101, 110, 116, 32,
          112, 114, 111, 116, 111, 99, 111, 108>>

Zeros(n) == [i \in 1..n |-> 0]

\* the '20s' format of struct.pack: cut to 20 bytes or filled up with zeros
Pack20s(b) == Slice(b, 0, 20) \o Zeros(20 - Min(Len(b), 20))

\* an encode that puts the peer_id before the info_hash
HandshakeEncode_Swapped(info_hash, peer_id) ==
    <<19>> \o Pstr \o Zeros(8) \o Pack20s(peer_id) \o Pack20s(info_hash)

\* Handshake.encode: struct.pack('>B19s8x20s20s', 19, pstr, info_hash, peer_id)
HandshakeEncode(info_hash, peer_id) ==
    <<19>> \o Pstr \o Zeros(8) \o Pack20s(info_hash) \o Pack20s(peer_id)

\* Handshake.decode: None, or the fields struct.unpack('>B19s8x20s20s') gives
\* (it raises on more than 68 bytes; _handshake passes buf[:68])
HandshakeDecode(data) ==
    IF Len(data) < HandshakeLength THEN None
    ELSE IF Len(data) > HandshakeLength THEN [type |-> "struct.error"]
    ELSE [type |-> "Handshake", info_hash |-> Slice(data, 28, 48),
          peer_id |-> Slice(data, 48, 68)]

\* our info_hash and peer_id, another torrent's info_hash, the remote's id
InfoHash == [i \in 1..20 |-> 1]
OtherHash == [i \in 1..20 |-> 2]
PeerId == <<45, 77, 84, 48, 48, 48, 49, 45, 48, 48, 48, 48, 48, 48, 48, 48,
            48, 48, 48, 49>>
RemoteId == [i \in 1..20 |-> 82]

GoodHandshake == HandshakeEncode(InfoHash, RemoteId)

\* what one reader.read can return while _handshake waits for the response:
\* a whole handshake, one with a message behind it, one with a wrong first
\* byte, a wrong protocol string or another info_hash, the two parts of a
\* handshake split in two segments, and b'' (the remote closed)
HsChunks ==
    { GoodHandshake,
      GoodHandshake \o Wire(Unchoke),
      <<0>> \o SliceFrom(GoodHandshake, 1),
      <<19, 88>> \o SliceFrom(GoodHandshake, 2),
      HandshakeEncode(OtherHash, RemoteId),
      Slice(GoodHandshake, 0, 40),
      SliceFrom(GoodHandshake, 40),
      <<>> }

(***************************************************************************)
(* The tag lists my_state.                                                 *)
(***************************************************************************)
In(tag, l) == \E i \in 1..Len(l) : l[i] = tag

Count(tag, l) == Cardinality({i \in 1..Len(l) : l[i] = tag})

\* list.remove(tag) for a tag that is in the list: its first occurrence goes
Remove(l, tag) ==
    LET i == CHOOSE k \in 1..Len(l) :
                 l[k] = tag /\ \A j \in 1..(k - 1) : l[j] # tag
    IN  SubSeq(l, 1, i - 1) \o SubSeq(l, i + 1, Len(l))

(***************************************************************************)
(* The piece manager is not part of these sources: next_request is an      *)
(* oracle that answers one of the blocks or None.                          *)
(***************************************************************************)
REQUEST_SIZE == 16384

Block(piece, offset) == [piece |-> piece, offset |-> offset, length |-> REQUEST_SIZE]

NoBlock == [piece |-> -1, offset |-> 0, length |-> 0]

NextRequestAnswers == {Block(0, 0), Block(1, 0), NoBlock}

\* what the remote sends after the handshake, one message per segment
SessionMsgs ==
    {Choke, Unchoke, BitField(<<128>>), Have(0),
     Piece(0, 0, <<7>>), Piece(1, 0, <<7>>)}

(***************************************************************************)
(* Observations of one connection, reset when a peer is dequeued.          *)
(***************************************************************************)
NewConn ==
    [first |-> "none",     \* the first message written to the connection
     sent |-> {},          \* the kinds of message written to it
     resp |-> <<>>,        \* the bytes _handshake gave to Handshake.decode
     decided |-> FALSE,    \* _handshake has decoded the response
     hsReads |-> 0,        \* reads _handshake has made for the response
     hsGot |-> <<>>,       \* the first 68 of the bytes those reads returned
     handled |-> FALSE,    \* a message of the remote was handled
     outstanding |-> {},   \* blocks requested and not answered by their piece
     sincePiece |-> 0,     \* requests written since the last piece message
     askedFor |-> <<>>,    \* this step's next_request call: its peer id
     asked |-> NoBlock,    \* what that call returned
     lastReq |-> <<>>,     \* the bytes of the request this step has written
     lastChoke |-> "none", \* the latest choke or unchoke handled: its type
     registered |-> FALSE, \* add_peer or update_peer was called for the remote
     piece |-> <<>>,       \* this step's piece message: index, begin, block
     cb |-> <<>>]          \* this step's call of on_block_cb: its arguments

(***************************************************************************)
(* The worker's state as a record, so that the pieces of _start compose.   *)
(* exc is the exception a call has raised ("" for none). What is observed  *)
(* of a single step starts empty.                                          *)
(***************************************************************************)
StepConn(c) ==
    [c EXCEPT !.askedFor = <<>>, !.asked = NoBlock, !.lastReq = <<>>,
              !.piece = <<>>, !.cb = <<>>]

Cur ==
    [pc |-> pc, outcome |-> outcome, cancelReq |-> cancelReq,
     my_state |-> my_state, queue |-> queue, unfinished |-> unfinished,
     writer |-> writer, remote_id |-> remote_id, buf |-> buf, tries |-> tries,
     buffer |-> buffer, gen_eof |-> gen_eof, ev |-> {}, lastExit |-> lastExit,
     conn |-> StepConn(conn), exc |-> ""]

Set(s) ==
    /\ pc' = s.pc
    /\ outcome' = s.outcome
    /\ cancelReq' = s.cancelReq
    /\ my_state' = s.my_state
    /\ queue' = s.queue
    /\ unfinished' = s.unfinished
    /\ writer' = s.writer
    /\ remote_id' = s.remote_id
    /\ buf' = s.buf
    /\ tries' = s.tries
    /\ buffer' = s.buffer
    /\ gen_eof' = s.gen_eof
    /\ ev' = s.ev
    /\ lastExit' = s.lastExit
    /\ conn' = s.conn
    /\ UNCHANGED <<legacy, enqueued, wire, msgs, yielded, auxVars>>

Ev(s, e) == [s EXCEPT !.ev = @ \cup {e}]

\* writer.write(message of this kind)
Write(s, kind) ==
    [Ev(s, kind) EXCEPT
        !.conn.first = IF @ = "none" THEN kind ELSE @,
        !.conn.sent = @ \cup {kind}]

\* the task ends
Finish(s, how) == [s EXCEPT !.pc = "done", !.outcome = how, !.cancelReq = FALSE]

\* Task.cancel() on a task that is not done: CancelledError is thrown into
\* the coroutine where it next suspends
RequestCancel(s) == [s EXCEPT !.cancelReq = TRUE]

\* a cancel() that requests nothing
CancelFuture_Lost(s, done) == s

\* "if not self.future.done(): self.future.cancel()" (protocol.py:165-166,
\* 181-182); done is whether the task has ended
CancelFuture(s, done) == IF done THEN s ELSE RequestCancel(s)

\* Queue.task_done(): ValueError when called more often than items were put
TaskDone(s) ==
    IF s.unfinished <= 0
    THEN [Ev(s, "task_done refused") EXCEPT !.exc = "ValueError"]
    ELSE [Ev(s, "task_done") EXCEPT !.unfinished = @ - 1]

\* PeerConnection.cancel; done is whether the task has ended (it has not
\* when the running task is the caller)
CancelMethod(s, done) ==
    LET s1 == CancelFuture(s, done)
        s2 == IF s1.writer # "none"
              THEN [Ev(s1, "close") EXCEPT !.writer = "closed"] ELSE s1
    IN  TaskDone(s2)

\* a peer is taken from the queue and open_connection is called
Dequeue(s) ==
    [Ev(s, "dequeue") EXCEPT !.queue = @ - 1, !.pc = "connect",
                             !.conn = NewConn]

\* "while 'stopped' not in self.my_state: ... await self.queue.get()" and the
\* call of open_connection (protocol.py:70-76). A coroutine that returns
\* while a cancellation is requested ends cancelled.
LoopTop(s) ==
    IF In("stopped", s.my_state)
    THEN Finish(s, IF s.cancelReq THEN "cancelled" ELSE "returned")
    ELSE IF s.queue > 0
         THEN Dequeue(s)
         ELSE [s EXCEPT !.pc = "get"]

\* protocol.py:159, after the try statement
AfterTry(s) ==
    LET s1 == CancelMethod(s, FALSE) IN
    IF s1.exc # "" THEN Finish(s1, s1.exc) ELSE LoopTop(s1)

\* "except Exception as e: ... self.cancel(); raise e" (protocol.py:154-158)
ExceptException(s, e) ==
    LET s1 == CancelMethod(s, FALSE) IN
    Finish(s1, IF s1.exc # "" THEN s1.exc ELSE e)

\* is CancelledError caught by "except (ConnectionResetError, CancelledError)"
\* and by anext's "except CancelledError"? The name is concurrent.futures'
\* class: asyncio raises that class up to Python 3.7, and its own, a
\* BaseException, since 3.8
CatchesCancelled(leg) == leg

\* exception e raised in _start's try block (protocol.py:148-158)
Raise(s, e) ==
    CASE e \in {"ProtocolError", "ConnectionRefusedError", "TimeoutError",
                "ConnectionResetError"} -> AfterTry(s)
      [] e = "CancelledError" ->
            IF CatchesCancelled(legacy) THEN AfterTry(s)
            ELSE Finish(s, "cancelled")
      [] OTHER -> ExceptException(s, e)

\* exception e raised inside anext (protocol.py:261-270): the handlers raise
\* StopAsyncIteration, which leaves an async generator as RuntimeError
GenRaise(s, e) ==
    IF e = "CancelledError" /\ ~CatchesCancelled(legacy)
    THEN Raise(s, "CancelledError")
    ELSE Raise(s, "RuntimeError")

\* the try block is left for reason why; _handshake's locals are gone
Exit(s, why) == [s EXCEPT !.lastExit = why, !.buf = <<>>, !.tries = 0]

(***************************************************************************)
(* _handshake (protocol.py:192-220) and the lines of _start that follow it *)
(* up to the next suspension.                                              *)
(***************************************************************************)
MaxTries == 10

\* _handshake without its comparison of the info_hash
HandshakeCheck_NoHash(response) ==
    IF response = None THEN "ProtocolError" ELSE ""

\* the tests of _handshake on the decoded response: the exception, or ""
HandshakeCheck(response) ==
    IF response = None THEN "ProtocolError"
    ELSE IF response.info_hash # InfoHash THEN "ProtocolError"
    ELSE ""

\* protocol.py:206-220, then 87-90: 'choked' is appended and interested sent.
\* buf and tries are locals of _handshake: they are gone when it returns or
\* raises, and buf then holds what it returned, _start's local buffer
HsDecode(s) ==
    LET data == Slice(s.buf, 0, HandshakeLength)
        response == HandshakeDecode(data)
        s1 == [s EXCEPT !.conn.resp = data, !.conn.decided = TRUE]
    IN  IF HandshakeCheck(response) # ""
        THEN Raise(Exit(s1, "protocol"), HandshakeCheck(response))
        ELSE Write([s1 EXCEPT !.remote_id = response.peer_id,
                              !.buf = SliceFrom(s.buf, HandshakeLength),
                              !.tries = 0,
                              !.my_state = Append(@, "choked"),
                              !.pc = "int_drain"],
                   "interested")

\* "while len(buf) < Handshake.length and tries < 10" (protocol.py:202-204)
HsLoop(s) ==
    IF Len(s.buf) < HandshakeLength /\ s.tries < MaxTries
    THEN [s EXCEPT !.tries = @ + 1, !.pc = "hs_read"]
    ELSE HsDecode(s)

\* what "buf = await self.reader.read(...)" does with the chunk read
HsStore(old, chunk) == chunk

(***************************************************************************)
(* The body of "async for message in iterator.anext()" (protocol.py:97-147)*)
(***************************************************************************)
\* the generator is resumed after a yield: its end-of-stream branch raises
\* StopAsyncIteration (protocol.py:260), the other reads again
AfterYield(s, eof) ==
    IF eof THEN GenRaise(Exit(s, "eof"), "StopAsyncIteration")
    ELSE [s EXCEPT !.pc = "read"]

\* the chain of type tests (protocol.py:99-140); exc is set when it raises.
\* KeepAlive, Request and Cancel are passed over. Interested and
\* NotInterested touch only peer_state, which no line reads: the remote of
\* this model does not send them and the list is left out.
Handle(s, message) ==
    CASE message.type = "BitField" ->
            [Ev(s, "add_peer") EXCEPT !.conn.registered = TRUE]
      [] message.type = "Choke" ->
            [s EXCEPT !.my_state = Append(@, "choked"),
                      !.conn.lastChoke = "Choke"]
      [] message.type = "Unchoke" ->
            LET s1 == [s EXCEPT !.conn.lastChoke = "Unchoke"] IN
            IF In("choked", s.my_state)
            THEN [s1 EXCEPT !.my_state = Remove(@, "choked")] ELSE s1
      [] message.type = "Have" ->
            [Ev(s, "update_peer") EXCEPT !.conn.registered = TRUE]
      [] message.type = "Piece" ->
            LET s1 == [s EXCEPT !.conn.piece = <<message.index, message.begin,
                                                 message.block>>]
            IN
            IF ~In("pending_request", s.my_state)
            THEN [s1 EXCEPT !.exc = "ValueError"]
            ELSE [Ev(s1, "block") EXCEPT
                    !.my_state = Remove(@, "pending_request"),
                    !.conn.cb = <<s.remote_id, message.index, message.begin,
                                  message.block>>,
                    !.conn.outstanding = @ \ {<<message.index, message.begin>>},
                    !.conn.sincePiece = 0]
      [] OTHER -> s

\* a pump that does not look at 'choked'
MayRequest_WhileChoked(l) ==
    /\ In("interested", l)
    /\ ~In("pending_request", l)

\* a pump that does not look at 'pending_request'
MayRequest_NoPending(l) ==
    /\ ~In("choked", l)
    /\ In("interested", l)

\* the test of the request pump (protocol.py:143-145)
MayRequest(l) ==
    /\ ~In("choked", l)
    /\ In("interested", l)
    /\ ~In("pending_request", l)

\* the message _request_piece makes of a block (protocol.py:187)
RequestOf(block) == Request(block.piece, block.offset, block.length)

\* protocol.py:142-147 with _request_piece; blk is next_request's answer
Pump(s, blk, eof) ==
    IF MayRequest(s.my_state)
    THEN LET s1 == [Ev(s, "next_request") EXCEPT
                       !.my_state = Append(@, "pending_request"),
                       !.conn.askedFor = s.remote_id,
                       !.conn.asked = blk]
         IN
         IF blk # NoBlock
         THEN LET e == Encode(RequestOf(blk)) IN
              IF e.raised THEN Raise(Exit(s1, "error"), "struct.error")
              ELSE [Write(s1, "request") EXCEPT
                      !.conn.outstanding = @ \cup {<<blk.piece, blk.offset>>},
                      !.conn.sincePiece = Min(@ + 1, 2),
                      !.conn.lastReq = e.bytes,
                      !.pc = "req_drain", !.gen_eof = eof]
         ELSE AfterYield(s1, eof)
    ELSE AfterYield(s, eof)

\* "if 'stopped' in self.my_state: break" (protocol.py:97-98)
BreaksWhenStopped(l) == In("stopped", l)

Body(s, message, blk, eof) ==
    IF BreaksWhenStopped(s.my_state) THEN AfterTry(Exit(s, "stopped"))
    ELSE LET s1 == Handle([Ev(s, "handle") EXCEPT !.conn.handled = TRUE],
                          message)
         IN  IF s1.exc # ""
             THEN Raise(Exit([s1 EXCEPT !.exc = ""], "error"), s1.exc)
             ELSE Pump(s1, blk, eof)

\* one turn t of anext in the worker
Turn(s, t, blk) ==
    LET s1 == [s EXCEPT !.buffer = t.buffer] IN
    IF t.raised THEN GenRaise(Exit(s1, "malformed"), "struct.error")
    ELSE IF t.message # None THEN Body(s1, t.message, blk, t.eof)
    ELSE AfterYield(s1, t.eof)

(***************************************************************************)
(* The steps of the worker task: each resumes the task where it is         *)
(* suspended and runs it to its next suspension.                           *)
(***************************************************************************)
\* stands for an exception where a step chooses among chunks of bytes
ResetMark == <<-1>>

\* a constructor that leaves a 'choked' in my_state
SessionInit_Choked ==
    /\ outcome = "pending"
    /\ cancelReq = FALSE
    /\ my_state = <<"choked">>
    /\ queue = 0
    /\ unfinished = 0
    /\ enqueued = 0
    /\ writer = "none"
    /\ remote_id = <<>>
    /\ buf = <<>>
    /\ tries = 0
    /\ gen_eof = FALSE
    /\ ev = {}
    /\ lastExit = "none"
    /\ conn = NewConn

\* the worker's state before the task has run (PeerConnection.__init__)
SessionInit ==
    /\ outcome = "pending"
    /\ cancelReq = FALSE
    /\ my_state = <<>>
    /\ queue = 0
    /\ unfinished = 0
    /\ enqueued = 0
    /\ writer = "none"
    /\ remote_id = <<>>
    /\ buf = <<>>
    /\ tries = 0
    /\ gen_eof = FALSE
    /\ ev = {}
    /\ lastExit = "none"
    /\ conn = NewConn

\* no function is applied and there is no piece manager
AuxIdle ==
    /\ arg = <<>>
    /\ res = <<>>
    /\ pm = <<>>

Init ==
    /\ legacy \in BOOLEAN
    /\ SessionInit
    /\ AuxIdle
    /\ pc = "init"
    /\ buffer = <<>>
    /\ wire = <<>>
    /\ msgs = <<>>
    /\ yielded = <<>>

\* the task runs for the first time
Start ==
    /\ pc = "init"
    /\ ~cancelReq
    /\ Set(LoopTop(Cur))

\* queue.get() returns
GetPeer ==
    /\ pc = "get"
    /\ ~cancelReq
    /\ queue > 0
    /\ Set(Dequeue(Cur))

\* open_connection returns or raises; _handshake writes our handshake
Connect ==
    /\ pc = "connect"
    /\ ~cancelReq
    /\ \E r \in {"ok", "refused", "timeout"} :
          Set(CASE r = "ok" ->
                     Write([Cur EXCEPT !.writer = "open", !.pc = "hs_drain"],
                           "handshake")
                [] r = "refused" ->
                     Raise(Exit(Cur, r), "ConnectionRefusedError")
                [] r = "timeout" -> Raise(Exit(Cur, r), "TimeoutError"))

\* writer.drain() of _handshake returns or raises
HsDrain ==
    /\ pc = "hs_drain"
    /\ ~cancelReq
    /\ \E r \in {"ok", "reset"} :
          Set(IF r = "ok" THEN HsLoop([Cur EXCEPT !.buf = <<>>, !.tries = 1])
              ELSE Raise(Exit(Cur, r), "ConnectionResetError"))

\* reader.read() of _handshake returns or raises
HsRead ==
    /\ pc = "hs_read"
    /\ ~cancelReq
    /\ \E c \in HsChunks \cup {ResetMark} :
          Set(IF c = ResetMark
              THEN Raise(Exit(Cur, "reset"), "ConnectionResetError")
              ELSE HsLoop([Cur EXCEPT
                              !.buf = HsStore(buf, c),
                              !.conn.hsReads = @ + 1,
                              !.conn.hsGot = Slice(@ \o c, 0, HandshakeLength)]))

\* writer.drain() of _send_interested returns or raises; the iterator is made
\* (the observations of the handshake's reads end here)
IntDrain ==
    /\ pc = "int_drain"
    /\ ~cancelReq
    /\ \E r \in {"ok", "reset"} :
          Set(IF r = "ok"
              THEN [Cur EXCEPT !.my_state = Append(@, "interested"),
                               !.conn.decided = FALSE,
                               !.conn.hsReads = 0, !.conn.hsGot = <<>>,
                               !.buffer = buf, !.buf = <<>>,
                               !.gen_eof = FALSE,
                               !.pc = "read"]
              ELSE Raise(Exit(Cur, r), "ConnectionResetError"))

\* reader.read() of anext returns data or b'', or raises
Read ==
    /\ pc = "read"
    /\ ~cancelReq
    /\ \E c \in {Wire(m) : m \in SessionMsgs} \cup {<<>>, ResetMark},
          blk \in NextRequestAnswers :
          /\ c = Wire(Choke) => Count("choked", my_state) < MaxChoked
          /\ Set(CASE c = ResetMark ->
                        GenRaise(Exit(Cur, "stream_reset"),
                                 "ConnectionResetError")
                   [] c = <<>> -> Turn(Cur, AnextEof(buffer), blk)
                   [] OTHER -> Turn(Cur, AnextData(buffer, c), blk))

\* writer.drain() of _request_piece returns or raises
ReqDrain ==
    /\ pc = "req_drain"
    /\ ~cancelReq
    /\ \E r \in {"ok", "reset"} :
          Set(IF r = "ok" THEN AfterYield(Cur, gen_eof)
              ELSE Raise(Exit(Cur, r), "ConnectionResetError"))

\* the task is resumed with CancelledError where it is suspended
DeliverCancel ==
    /\ cancelReq
    /\ pc # "done"
    /\ LET s == [Cur EXCEPT !.cancelReq = FALSE] IN
       Set(CASE pc \in {"init", "get"} -> Finish(s, "cancelled")
             [] pc = "read" -> GenRaise(Exit(s, "cancelled"), "CancelledError")
             [] OTHER -> Raise(Exit(s, "cancelled"), "CancelledError"))

Worker ==
    \/ Start
    \/ GetPeer
    \/ Connect
    \/ HsDrain
    \/ HsRead
    \/ IntDrain
    \/ Read
    \/ ReqDrain
    \/ DeliverCancel

\* the client puts a peer on the queue
EnqueuePeer ==
    /\ enqueued < MaxPeers
    /\ enqueued' = enqueued + 1
    /\ queue' = queue + 1
    /\ unfinished' = unfinished + 1
    /\ ev' = {}
    /\ UNCHANGED <<legacy, pc, outcome, cancelReq, my_state, writer,
                   remote_id, buf, tries, buffer, gen_eof, lastExit, conn,
                   wire, msgs, yielded, auxVars>>

\* PeerConnection.stop (protocol.py:172-182)
Stop ==
    /\ Count("stopped", my_state) < MaxStops
    /\ Set(CancelFuture([Cur EXCEPT !.my_state = Append(@, "stopped")],
                        pc = "done"))

Next == Worker \/ EnqueuePeer \/ Stop

Spec == Init /\ [][Next]_vars

\* what the event loop does by itself: it runs a new task, wakes the getter
\* of a queue that holds an item, and resumes a cancelled task. Whether the
\* remote answers is the remote's choice.
LoopStep == Start \/ GetPeer \/ DeliverCancel

SpecLive == Spec /\ WF_vars(LoopStep)

Stopped == In("stopped", my_state)

(***************************************************************************)
(* C3  At most one in flight, as claimed: on a connection at most one      *)
(* requested block is without the piece message that answers it.           *)
(***************************************************************************)
C3_AtMostOneInFlight == Cardinality(conn.outstanding) <= 1

(***************************************************************************)
(* C3  as the code has it: on a connection the session writes at most one  *)
(* request after the latest piece message it received (whatever block that *)
(* piece carried), and at most one before the first.                       *)
(***************************************************************************)
C3_OneRequestPerPiece == conn.sincePiece <= 1

\* a piece message was handled and the next request written in its step
C3_Witness ==
    /\ {"block", "request"} \subseteq ev
    /\ conn.sincePiece = 1

(***************************************************************************)
(* C4  Worker continues after a failed peer: when the latest connection    *)
(* was refused, timed out or failed its handshake with ProtocolError, and  *)
(* stop() was not called, the worker task has not ended.                   *)
(***************************************************************************)
C4_WorkerContinues ==
    (lastExit \in {"refused", "timeout", "protocol"} /\ ~Stopped)
        => pc # "done"

(***************************************************************************)
(* C5  Stream end is peer-gone: when the remote closed the stream or the   *)
(* connection was reset in the message loop, no exception has escaped the  *)
(* worker task, and unless stopped the worker has not ended.               *)
(***************************************************************************)
C5_StreamEndSilent ==
    lastExit \in {"eof", "stream_reset"}
        => /\ outcome \in {"pending", "cancelled", "returned"}
           /\ ~Stopped => pc # "done"

(***************************************************************************)
(* C6  Shutdown is one-way: once 'stopped' is in my_state it stays there,  *)
(* and no later step handles a message, writes a request or takes a peer   *)
(* from the queue.                                                         *)
(***************************************************************************)
C6_ShutdownOneWay ==
    [][Stopped => /\ Stopped'
                  /\ ev' \cap {"handle", "request", "dequeue"} = {}]_vars

\* stop() was called in the message loop and the worker has ended
C6_Witness ==
    /\ Stopped
    /\ conn.handled
    /\ lastExit = "cancelled"
    /\ pc = "done"

(***************************************************************************)
(* C7  Cancellation liveness: once stop() has been called, wherever the    *)
(* worker is suspended, its task eventually ends.                          *)
(***************************************************************************)
C7_CancellationLiveness == Stopped ~> pc = "done"

\* stop() was called while a request was being written, and the task ended
C7_Witness ==
    /\ Stopped
    /\ outcome = "cancelled"
    /\ "request" \in conn.sent
    /\ conn.sincePiece = 1

(***************************************************************************)
(* C9  Malformed handshake is rejected: a connection on which the session  *)
(* went on to send interested gave Handshake.decode 68 bytes that start    *)
(* with 19 and "BitTorrent protocol".                                      *)
(***************************************************************************)
WellFormedHandshake(d) ==
    /\ Len(d) = HandshakeLength
    /\ d[1] = 19
    /\ Slice(d, 1, 20) = Pstr

C9_MalformedRejected ==
    "interested" \in conn.sent => WellFormedHandshake(conn.resp)

(***************************************************************************)
(* C10  Info-hash gate: the first message written to a connection is our   *)
(* handshake; interested or a request is written, or a message of the      *)
(* remote handled, only on a connection whose handshake response carried   *)
(* our info_hash; a response with another info_hash ends the connection    *)
(* with ProtocolError and nothing but our handshake written.               *)
(***************************************************************************)
RespHash == Slice(conn.resp, 28, 48)

C10_InfoHashGate ==
    /\ conn.first \in {"none", "handshake"}
    /\ (conn.sent \cap {"interested", "request"} # {} \/ conn.handled)
          => (Len(conn.resp) = HandshakeLength /\ RespHash = InfoHash)
    /\ (Len(conn.resp) = HandshakeLength /\ RespHash # InfoHash)
          => (lastExit = "protocol" /\ conn.sent = {"handshake"})

\* a handshake of another torrent was received and refused
C10_Witness ==
    /\ RespHash = OtherHash
    /\ lastExit = "protocol"
    /\ conn.sent = {"handshake"}


(***************************************************************************)
(* SpecFramer: the iterator read by "async for" with a consumer that only  *)
(* collects what is yielded. The remote sends WireAll(msgs) and then       *)
(* closes; reader.read returns the next 1..CHUNK_SIZE bytes.               *)
(***************************************************************************)
CHUNK_SIZE == 10240

FramerMsgs ==
    {KeepAlive, Choke, Unchoke, Have(1), BitField(<<128>>), Port(6881)}

MsgSeqs == UNION {[1..n -> FramerMsgs] : n \in 0..MaxMsgs}

InitFramer ==
    /\ legacy = FALSE
    /\ SessionInit
    /\ AuxIdle
    /\ msgs \in MsgSeqs
    /\ wire = WireAll(msgs)
    /\ yielded = <<>>
    /\ buffer = <<>>
    /\ pc = "read"

\* the consumer's side of one turn of anext: t is AnextData or AnextEof.
\* A generator that raises StopAsyncIteration ends with RuntimeError.
FramerTurn(t) ==
    /\ yielded' = IF t.message # None /\ ~t.raised
                  THEN Append(yielded, t.message) ELSE yielded
    /\ buffer' = t.buffer
    /\ pc' = IF t.raised \/ t.eof THEN "done" ELSE "read"
    /\ outcome' = IF t.raised \/ t.eof THEN "RuntimeError" ELSE outcome

FramerRead ==
    /\ pc = "read"
    /\ \E n \in 1..Min(Len(wire), CHUNK_SIZE) :
          /\ FramerTurn(AnextData(buffer, Slice(wire, 0, n)))
          /\ wire' = SliceFrom(wire, n)
    /\ UNCHANGED <<legacy, cancelReq, my_state, queue, unfinished, enqueued,
                   writer, remote_id, buf, tries, gen_eof, ev, lastExit,
                   conn, msgs, auxVars>>

FramerEof ==
    /\ pc = "read"
    /\ wire = <<>>
    /\ FramerTurn(AnextEof(buffer))
    /\ UNCHANGED <<legacy, cancelReq, my_state, queue, unfinished, enqueued,
                   writer, remote_id, buf, tries, gen_eof, ev, lastExit,
                   conn, msgs, wire, auxVars>>

NextFramer == FramerRead \/ FramerEof

SpecFramer == InitFramer /\ [][NextFramer]_vars

\* the bytes parse sees in a step: the buffer and what the step read
Received == buffer \o Slice(wire, 0, Len(wire) - Len(wire'))

\* the step yields message m
Yields(m) == yielded' = Append(yielded, m)

(***************************************************************************)
(* C1  Framer completeness: when the sequence has ended (the remote sent   *)
(* encode(m1)..encode(mn), in whatever chunks, and closed), the framer has *)
(* yielded exactly m1..mn and nothing is left in the buffer.               *)
(***************************************************************************)
C1_FramerComplete == pc = "done" => (yielded = msgs /\ buffer = <<>>)

(***************************************************************************)
(* C2  Keep-alive framing: a step that yields keep-alive consumes exactly  *)
(* the 4 bytes of its length prefix; and the stream 00 00 00 00 00 00 00   *)
(* 01 01, once ended, has yielded exactly keep-alive, unchoke.             *)
(***************************************************************************)
C2_KeepAliveFraming ==
    /\ [][Yields(KeepAlive) => buffer' = SliceFrom(Received, 4)]_vars
    /\ [](msgs = <<KeepAlive, Unchoke>> /\ pc = "done"
             => yielded = <<KeepAlive, Unchoke>>)

(***************************************************************************)
(* C8  Unknown ids are skipped: a step of the framer that finds a whole    *)
(* frame with an id outside 0..8 (port, 9) at the head of its buffer does  *)
(* not fail and advances past that frame.                                  *)
(***************************************************************************)
UnknownFrameAtHead(b) ==
    /\ Len(b) > 4
    /\ U32(Slice(b, 0, 4)) > 0
    /\ Len(b) >= U32(Slice(b, 0, 4)) + 4
    /\ SignedByte(b[5]) \notin 0..8

C8_UnknownSkipped ==
    [][pc = "read" /\ UnknownFrameAtHead(Received)
          => Len(buffer') <= Len(Received) - (U32(Slice(Received, 0, 4)) + 4)
      ]_vars

(***************************************************************************)
(* C11  Request pump: a step that handled a message and left the session   *)
(* unchoked, interested and without a requested block awaiting its piece   *)
(* has asked next_request; a step that asked did so for the remote's peer  *)
(* id, and wrote a request exactly when a block was returned, the request  *)
(* carrying that block's piece index, offset and length.                   *)
(***************************************************************************)
Unchoked == ~In("choked", my_state)

C11_RequestPump ==
    /\ ("handle" \in ev /\ lastExit # "error" /\ Unchoked
           /\ In("interested", my_state) /\ conn.outstanding = {})
          => "next_request" \in ev
    /\ "next_request" \in ev
          => /\ conn.askedFor = remote_id
             /\ "request" \in ev <=> conn.asked # NoBlock
             /\ conn.asked # NoBlock => conn.lastReq = Wire(RequestOf(conn.asked))

(***************************************************************************)
(* SpecCodec: encode applied to a message, then the decode of its class    *)
(* and the framer's parse applied to the bytes encode returned.            *)
(***************************************************************************)
\* PeerMessage.decode: pass
PeerMessageDecode(data) == Decoded(None)

\* cls.decode(data), by the class of message m
Decode(m, data) ==
    CASE m.type = "Have" -> HaveDecode(data)
      [] m.type = "BitField" -> BitFieldDecode(data)
      [] m.type = "Request" -> RequestDecode(data)
      [] m.type = "Piece" -> PieceDecode(data)
      [] m.type = "Cancel" -> CancelDecode(data)
      [] OTHER -> PeerMessageDecode(data)

\* messages of every kind of the grammar, with field values over the range
CodecMsgs ==
    {KeepAlive, Choke, Unchoke, Interested, NotInterested}
    \cup {Have(i) : i \in {0, 1, 255, 256, 65536, 2147483647}}
    \cup {BitField(b) : b \in {<<>>, <<128>>, <<255, 1>>}}
    \cup {Request(i, b, l) : i \in {0, 1, 70000}, b \in {0, 16384},
                              l \in {1, REQUEST_SIZE}}
    \cup {Piece(i, b, blk) : i \in {0, 70000}, b \in {0, 16384},
                              blk \in {<<>>, <<7>>, <<7, 0, 255>>}}
    \cup {Cancel(i, b, l) : i \in {0, 1, 70000}, b \in {0, 16384},
                             l \in {1, REQUEST_SIZE}}
    \cup {Port(p) : p \in {0, 6881, 65535}}

InitCodec ==
    /\ legacy = FALSE
    /\ SessionInit
    /\ buffer = <<>>
    /\ wire = <<>>
    /\ msgs = <<>>
    /\ yielded = <<>>
    /\ pm = <<>>
    /\ pc = "encode"
    /\ arg \in CodecMsgs
    /\ res = [encoded |-> EncNone, decoded |-> Decoded(None),
              parsed |-> Decoded(None)]

\* arg.encode(); there is nothing to decode when it raised or gave None
CodecEncode ==
    /\ pc = "encode"
    /\ res' = [res EXCEPT !.encoded = Encode(arg)]
    /\ pc' = IF Encode(arg).raised \/ Encode(arg).none THEN "done"
             ELSE "decode"
    /\ UNCHANGED <<sessionVars, buffer, framerVars, arg, pm>>

\* type(arg).decode(the encoded bytes)
CodecDecode ==
    /\ pc = "decode"
    /\ res' = [res EXCEPT !.decoded = Decode(arg, res.encoded.bytes)]
    /\ pc' = "parse"
    /\ UNCHANGED <<sessionVars, buffer, framerVars, arg, pm>>

\* parse() of a framer whose buffer holds the encoded bytes
CodecParse ==
    /\ pc = "parse"
    /\ LET r == Parse(res.encoded.bytes) IN
       res' = [res EXCEPT !.parsed = [raised |-> r.raised,
                                      message |-> r.message]]
    /\ pc' = "done"
    /\ UNCHANGED <<sessionVars, buffer, framerVars, arg, pm>>

NextCodec == CodecEncode \/ CodecDecode \/ CodecParse

SpecCodec == InitCodec /\ [][NextCodec]_vars

(***************************************************************************)
(* C12  Encoding round-trip: for a message of any kind of the grammar,     *)
(* encode has returned the framed bytes of the message, and decoding them  *)
(* (by the decode of its class or by the framer) has given back a message  *)
(* of the same kind with the same fields.                                  *)
(***************************************************************************)
C12_EncodeDecodeRoundTrip ==
    pc = "done"
        => /\ res.encoded = Encoded(Wire(arg))
           /\ \/ res.decoded = Decoded(arg)
              \/ res.parsed = Decoded(arg)

(***************************************************************************)
(* SpecHandshake: Handshake(info_hash, peer_id).encode(), then             *)
(* Handshake.decode of the bytes it returned.                              *)
(***************************************************************************)
\* 0x0102...14, the 20 bytes 1..20
Counting == [i \in 1..20 |-> i]

\* 20-byte values for info_hash and peer_id
Bytes20 ==
    {InfoHash, OtherHash, PeerId, RemoteId, Counting,
     Zeros(20), [i \in 1..20 |-> 255], [i \in 1..20 |-> 21 - i]}

InitHandshake ==
    /\ legacy = FALSE
    /\ SessionInit
    /\ buffer = <<>>
    /\ wire = <<>>
    /\ msgs = <<>>
    /\ yielded = <<>>
    /\ pm = <<>>
    /\ pc = "encode"
    /\ arg \in [info_hash : Bytes20, peer_id : Bytes20]
    /\ res = [encoded |-> <<>>, decoded |-> None]

HandshakeEncodeCall ==
    /\ pc = "encode"
    /\ res' = [res EXCEPT !.encoded = HandshakeEncode(arg.info_hash, arg.peer_id)]
    /\ pc' = "decode"
    /\ UNCHANGED <<sessionVars, buffer, framerVars, arg, pm>>

HandshakeDecodeCall ==
    /\ pc = "decode"
    /\ res' = [res EXCEPT !.decoded = HandshakeDecode(res.encoded)]
    /\ pc' = "done"
    /\ UNCHANGED <<sessionVars, buffer, framerVars, arg, pm>>

NextHandshake == HandshakeEncodeCall \/ HandshakeDecodeCall

SpecHandshake == InitHandshake /\ [][NextHandshake]_vars

(***************************************************************************)
(* C13  Handshake round-trip: for 20-byte info_hash and peer_id, encode    *)
(* returns exactly 68 bytes, byte 19 then "BitTorrent protocol" then 8     *)
(* zero bytes, and decode of those bytes returns the same info_hash and    *)
(* peer_id.                                                                *)
(***************************************************************************)
C13_HandshakeRoundTrip ==
    /\ pc \in {"decode", "done"}
          => /\ Len(res.encoded) = 68
             /\ res.encoded[1] = 19
             /\ Slice(res.encoded, 1, 20) = Pstr
             /\ Slice(res.encoded, 20, 28) = <<0, 0, 0, 0, 0, 0, 0, 0>>
    /\ pc = "done"
          => /\ res.decoded.type = "Handshake"
             /\ res.decoded.info_hash = arg.info_hash
             /\ res.decoded.peer_id = arg.peer_id

\* the handshake of 0x0102...14 and -MT0001-000000000001 went round
C13_Witness ==
    /\ pc = "done"
    /\ arg = [info_hash |-> Counting, peer_id |-> PeerId]
    /\ Slice(res.encoded, 0, 20) = <<19>> \o Pstr
    /\ res.decoded.type = "Handshake"

(***************************************************************************)
(* SpecTracker: TrackerResponse(response) of src/minTorrent/tracker.py,    *)
(* which makes its peers of response.get(b'peers', ""); the loop of        *)
(* _generate_peer_list runs one record a step.                             *)
(***************************************************************************)
\* str(n) for n >= 0, as character codes
RECURSIVE Str(_)
Str(n) == IF n < 10 THEN <<48 + n>> ELSE Str(n \div 10) \o <<48 + (n % 10)>>

\* socket.inet_ntoa(b): the dotted string; OSError unless b has 4 bytes
InetNtoa(b) ==
    IF Len(b) # 4 THEN [raised |-> "OSError", ip |-> <<>>]
    ELSE [raised |-> "",
          ip |-> Str(b[1]) \o <<46>> \o Str(b[2]) \o <<46>> \o Str(b[3])
                    \o <<46>> \o Str(b[4])]

\* a decoder that reads the port low byte first
DecodePort_LittleEndian(port) ==
    IF Len(port) # 2 THEN [raised |-> "struct.error", port |-> 0]
    ELSE [raised |-> "", port |-> port[2] * 256 + port[1]]

\* _decode_port: unpack(">H", port)[0]; struct.error unless port has 2 bytes
DecodePort(port) ==
    IF Len(port) # 2 THEN [raised |-> "struct.error", port |-> 0]
    ELSE [raised |-> "", port |-> port[1] * 256 + port[2]]

\* Peer(ip, port, None)
Peer(ip, port) == [ip |-> ip, port |-> port, id |-> None]

\* [peers_binary[i:i+6] for i in range(0, len(peers_binary), 6)]
RECURSIVE SplitPeers(_)
SplitPeers(peers_binary) ==
    IF peers_binary = <<>> THEN <<>>
    ELSE <<Slice(peers_binary, 0, 6)>> \o SplitPeers(SliceFrom(peers_binary, 6))

\* 6-byte records, and what may trail them in a value that is cut short
PeerRecords ==
    { <<127, 0, 0, 1, 26, 225>>, <<10, 0, 200, 255, 0, 80>>,
      <<255, 255, 255, 255, 255, 255>>, <<0, 0, 0, 0, 0, 0>>,
      <<192, 168, 1, 9, 200, 213>> }

PeerTails == {<<>>, <<1, 2, 3>>, <<1, 2, 3, 4, 5>>}

\* the response: no b'peers' key, a list of dictionaries, or a bytes value
TrackerInputs ==
    {[key |-> FALSE, list |-> FALSE, value |-> <<>>],
     [key |-> TRUE, list |-> TRUE, value |-> <<>>]}
    \cup {[key |-> TRUE, list |-> FALSE, value |-> Concat(rs) \o t] :
             rs \in UNION {[1..n -> PeerRecords] : n \in 0..MaxRecords},
             t \in PeerTails}

InitTracker ==
    /\ legacy = FALSE
    /\ SessionInit
    /\ buffer = <<>>
    /\ wire = <<>>
    /\ msgs = <<>>
    /\ yielded = <<>>
    /\ pm = <<>>
    /\ pc = "call"
    /\ arg \in TrackerInputs
    /\ res = [raised |-> "", chunks |-> <<>>, tuple_list |-> <<>>,
              peers |-> <<>>]

\* the type test and the split (tracker.py:70-76); a missing key gives ""
GeneratePeerListBegin ==
    /\ pc = "call"
    /\ IF arg.list
       THEN /\ res' = [res EXCEPT !.raised = "NotImplementedError"]
            /\ pc' = "done"
       ELSE /\ res' = [res EXCEPT !.chunks = SplitPeers(arg.value)]
            /\ pc' = "loop"
    /\ UNCHANGED <<sessionVars, buffer, framerVars, arg, pm>>

\* one turn of "for p in peers" (tracker.py:79-86)
GeneratePeerListTurn ==
    /\ pc = "loop"
    /\ res.chunks # <<>>
    /\ LET p == Head(res.chunks)
           ip == InetNtoa(Slice(p, 0, 4))
           port == DecodePort(SliceFrom(p, 4))
       IN  IF ip.raised # ""
           THEN res' = [res EXCEPT !.raised = ip.raised] /\ pc' = "done"
           ELSE IF port.raised # ""
           THEN res' = [res EXCEPT !.raised = port.raised] /\ pc' = "done"
           ELSE /\ res' = [res EXCEPT
                              !.tuple_list = Append(@, Peer(ip.ip, port.port)),
                              !.chunks = Tail(@)]
                /\ pc' = "loop"
    /\ UNCHANGED <<sessionVars, buffer, framerVars, arg, pm>>

\* "return tuple_list", which __init__ stores in self.peers
GeneratePeerListReturn ==
    /\ pc = "loop"
    /\ res.chunks = <<>>
    /\ res' = [res EXCEPT !.peers = res.tuple_list]
    /\ pc' = "done"
    /\ UNCHANGED <<sessionVars, buffer, framerVars, arg, pm>>

NextTracker ==
    GeneratePeerListBegin \/ GeneratePeerListTurn \/ GeneratePeerListReturn

SpecTracker == InitTracker /\ [][NextTracker]_vars

(***************************************************************************)
(* C16  Compact peer list decoding: for a bytes value of 6*n bytes the     *)
(* call does not fail and peers has exactly n records in the order of the  *)
(* value, the i-th with the dotted IP of bytes 6i..6i+3, the port that is  *)
(* the big-endian value of bytes 6i+4..6i+5 and no peer id; a missing or   *)
(* empty value gives the empty list.                                       *)
(***************************************************************************)
\* the numbers of a dotted string
RECURSIVE DottedFrom(_, _, _, _)
DottedFrom(str, i, cur, acc) ==
    IF i > Len(str) THEN Append(acc, cur)
    ELSE IF str[i] = 46 THEN DottedFrom(str, i + 1, 0, Append(acc, cur))
    ELSE DottedFrom(str, i + 1, cur * 10 + (str[i] - 48), acc)

DottedNumbers(str) == DottedFrom(str, 1, 0, <<>>)

C16_CompactPeerList ==
    (pc = "done" /\ ~arg.list /\ Len(arg.value) % 6 = 0)
        => /\ res.raised = ""
           /\ Len(res.peers) = Len(arg.value) \div 6
           /\ \A i \in 1..Len(res.peers) :
                 LET o == 6 * (i - 1) IN
                 /\ Count(46, res.peers[i].ip) = 3
                 /\ DottedNumbers(res.peers[i].ip)
                       = <<arg.value[o + 1], arg.value[o + 2],
                           arg.value[o + 3], arg.value[o + 4]>>
                 /\ res.peers[i].port
                       = arg.value[o + 5] * 256 + arg.value[o + 6]
                 /\ res.peers[i].id = None
           /\ (~arg.key \/ arg.value = <<>>) => res.peers = <<>>

\* 127.0.0.1:6881 and 10.0.200.255:80 were decoded, in this order
C16_Witness ==
    /\ pc = "done"
    /\ Len(res.peers) = 2
    /\ res.peers[1].ip = <<49, 50, 55, 46, 48, 46, 48, 46, 49>>
    /\ res.peers[1].port = 6881
    /\ res.peers[2].port = 80

(***************************************************************************)
(* SpecPeerId: _calculate_peer_id of src/minTorrent/tracker.py; the list   *)
(* comprehension draws one digit a step.                                   *)
(***************************************************************************)
\* '-MT0001-'
PeerIdPrefix == <<45, 77, 84, 48, 48, 48, 49, 45>>

\* range(12)
PeerIdDigits == 12

\* a randint that may give one more than its upper end
RandInt_PastEnd(a, b) == {a, (a + b) \div 2, b + 1}

\* random.randint(a, b): any value of a..b; the model draws the two ends of
\* the range and its middle
RandInt(a, b) == {a, (a + b) \div 2, b}

InitPeerId ==
    /\ legacy = FALSE
    /\ SessionInit
    /\ buffer = <<>>
    /\ wire = <<>>
    /\ msgs = <<>>
    /\ yielded = <<>>
    /\ pm = <<>>
    /\ pc = "digits"
    /\ arg = <<>>
    /\ res = [strs |-> <<>>, id |-> <<>>]

\* str(random.randint(0, 9)) for the next "_ in range(12)"
PeerIdDraw ==
    /\ pc = "digits"
    /\ Len(res.strs) < PeerIdDigits
    /\ \E d \in RandInt(0, 9) : res' = [res EXCEPT !.strs = Append(@, Str(d))]
    /\ UNCHANGED <<pc, sessionVars, buffer, framerVars, arg, pm>>

\* '-MT0001-' + ''.join(...)
PeerIdJoin ==
    /\ pc = "digits"
    /\ Len(res.strs) = PeerIdDigits
    /\ res' = [res EXCEPT !.id = PeerIdPrefix \o Concat(res.strs)]
    /\ pc' = "done"
    /\ UNCHANGED <<sessionVars, buffer, framerVars, arg, pm>>

NextPeerId == PeerIdDraw \/ PeerIdJoin

SpecPeerId == InitPeerId /\ [][NextPeerId]_vars

(***************************************************************************)
(* C17  Our peer id has exactly 20 characters: -MT0001- followed by        *)
(* exactly 12 decimal digits.                                              *)
(***************************************************************************)
C17_PeerIdShape ==
    pc = "done"
        => /\ Len(res.id) = 20
           /\ SubSeq(res.id, 1, 8) = <<45, 77, 84, 48, 48, 48, 49, 45>>
           /\ \A i \in 9..20 : res.id[i] \in 48..57

\* an id with the digits 0 and 9 in it was made
C17_Witness ==
    /\ pc = "done"
    /\ res.id[9] = 48
    /\ res.id[20] = 57

(***************************************************************************)
(* C18  Handshake reading accumulates: when _handshake has decided, if its *)
(* reads (at most 10) returned 68 bytes or more in total, it decoded the   *)
(* first 68 of them, and accepted them when they are the remote's          *)
(* handshake for our info_hash; it gave up for want of bytes only when 10  *)
(* reads had not returned 68 bytes in total.                               *)
(***************************************************************************)
C18_HandshakeAccumulates ==
    conn.decided
        => /\ Len(conn.hsGot) >= 68
                 => /\ conn.resp = conn.hsGot
                    /\ conn.hsGot = GoodHandshake => "interested" \in conn.sent
           /\ Len(conn.hsGot) < 68 => conn.hsReads = 10

(***************************************************************************)
(* C20  Handshake spillover is delivered: the session does not wait for    *)
(* the remote with a whole message, read together with the handshake, at   *)
(* the head of the framer's buffer and no message handled yet.             *)
(***************************************************************************)
WholeMessageAtHead(b) ==
    /\ Len(b) >= 4
    /\ Len(b) >= U32(Slice(b, 0, 4)) + 4

C20_SpilloverDelivered ==
    ~(pc = "read" /\ ~conn.handled /\ WholeMessageAtHead(buffer))

(***************************************************************************)
(* C19  Whole frames only: a step of the framer that has read data and     *)
(* finds a length prefix L > 0 with fewer than L + 4 bytes buffered does   *)
(* not decode, fail or consume: it yields nothing, keeps every byte and    *)
(* reads again.                                                            *)
(***************************************************************************)
PartialFrameAtHead(b) ==
    /\ Len(b) >= 4
    /\ U32(Slice(b, 0, 4)) > 0
    /\ Len(b) < U32(Slice(b, 0, 4)) + 4

C19_WholeFramesOnly ==
    [][(pc = "read" /\ wire' # wire /\ PartialFrameAtHead(Received))
          => (pc' = "read" /\ yielded' = yielded /\ buffer' = Received)]_vars

(***************************************************************************)
(* SpecManager: the piece manager, which these sources import from client  *)
(* and do not contain. It is modelled on its description: the blocks of    *)
(* two pieces (32768 and 7232 bytes), two peers, a clock in seconds.       *)
(***************************************************************************)
ManagerPeers == {"A", "B"}

Pieces == {0, 1}

\* the blocks <<piece, offset>> of the torrent: two of piece 0, one of piece 1
AllBlocks == {<<0, 0>>, <<0, REQUEST_SIZE>>, <<1, 0>>}

BlocksOf(piece) == {b \in AllBlocks : b[1] = piece}

\* the Block (piece, offset, length); the last block is the short one
BlockAt(b) ==
    [piece |-> b[1], offset |-> b[2],
     length |-> IF b = <<1, 0>> THEN 7232 ELSE REQUEST_SIZE]

\* the content of a block in the torrent, and what a corrupt delivery holds
TrueData(b) == <<b[1] + 1, (b[2] \div REQUEST_SIZE) + 1>>
BadData == <<0, 0>>

\* the digest: a number that differs for any two of the model's contents
\* (their bytes are below 7)
RECURSIVE Sha1(_)
Sha1(bytes) ==
    IF bytes = <<>> THEN 1
    ELSE (Sha1(SubSeq(bytes, 1, Len(bytes) - 1)) * 7 + bytes[Len(bytes)]) % 1000003

\* the data of a piece's blocks in the order of their offsets
PieceBytes(data, piece) ==
    IF piece = 0 THEN data[<<0, 0>>] \o data[<<0, REQUEST_SIZE>>]
    ELSE data[<<1, 0>>]

expected_digest(piece) == Sha1(PieceBytes([b \in AllBlocks |-> TrueData(b)], piece))

\* the 5 minutes after which a pending request is expired, in seconds
Horizon == 300

ManagerInit ==
    [status |-> [b \in AllBlocks |-> "Missing"],
     data |-> [b \in AllBlocks |-> <<>>],
     missing |-> Pieces,
     ongoing |-> {},
     have |-> {},
     peers |-> [q \in {} |-> {}],
     pending |-> {},
     now |-> 0,
     written |-> {},
     mismatch |-> FALSE,
     last |-> [peer |-> "", from |-> "", result |-> NoBlock]]

\* observation: the step was next_request for peer and returned result,
\* from being the peer whose expired request it took over, if it did; the
\* other operations leave "" for the peer
Called(m, peer, from, result) ==
    [m EXCEPT !.last = [peer |-> peer, from |-> from, result |-> result]]

Other(m) == Called(m, "", "", NoBlock)

\* the least element of a non-empty set of numbers, or of blocks by offset
Least(S) == CHOOSE x \in S : \A y \in S : x <= y
FirstBlock(S) == CHOOSE b \in S : \A c \in S : b[2] <= c[2]

Holds(m, peer, piece) == peer \in DOMAIN m.peers /\ piece \in m.peers[peer]

MissingBlocks(m, piece) == {b \in BlocksOf(piece) : m.status[b] = "Missing"}

\* a request that never expires
Expired_Never(r, now) == FALSE

\* a PendingRequest whose issued_at is older than 5 minutes
Expired(r, now) == r.issued_at + Horizon < now

\* block b is marked Pending and its PendingRequest made (or made anew)
Assign(m, peer, b) ==
    [m EXCEPT !.status[b] = "Pending",
              !.pending = {r \in @ : r.block # b}
                  \cup {[block |-> b, peer |-> peer, issued_at |-> m.now]}]

\* the three strategies of next_request, in their order
Continuable(m, peer) ==
    {i \in m.ongoing : Holds(m, peer, i) /\ MissingBlocks(m, i) # {}}

Startable(m, peer) == {i \in m.missing : Holds(m, peer, i)}

ExpiredBlocks(m) == {r.block : r \in {x \in m.pending : Expired(x, m.now)}}

next_request(m, peer) ==
    IF Continuable(m, peer) # {}
    THEN LET b == FirstBlock(MissingBlocks(m, Least(Continuable(m, peer)))) IN
         Called(Assign(m, peer, b), peer, "", BlockAt(b))
    ELSE IF Startable(m, peer) # {}
    THEN LET i == Least(Startable(m, peer))
             b == FirstBlock(BlocksOf(i))
         IN  Called(Assign([m EXCEPT !.missing = @ \ {i},
                                     !.ongoing = @ \cup {i}], peer, b),
                    peer, "", BlockAt(b))
    ELSE IF ExpiredBlocks(m) # {}
    THEN LET i == Least({b[1] : b \in ExpiredBlocks(m)})
             b == FirstBlock({c \in ExpiredBlocks(m) : c[1] = i})
             old == CHOOSE r \in m.pending : r.block = b
         IN  Called(Assign(m, peer, b), peer, old.peer, BlockAt(b))
    ELSE Called(m, peer, "", NoBlock)

\* a comparison that accepts every digest
DigestMatches_Always(data, piece) == TRUE

\* the digest of the concatenated block data against the piece's
DigestMatches(data, piece) == Sha1(PieceBytes(data, piece)) = expected_digest(piece)

\* what the file assembler is given: the piece's bytes at index * piece_length
WriteOf(data, piece) ==
    [piece |-> piece, offset |-> piece * (2 * REQUEST_SIZE),
     bytes |-> PieceBytes(data, piece)]

\* on_block_received, steps 1 to 4
on_block_received(m, peer, piece, begin, bytes) ==
    LET b == <<piece, begin>>
        m0 == Other(m)
    IN
    IF piece \notin m.ongoing THEN m0
    ELSE IF b \notin AllBlocks \/ m.status[b] = "Retrieved" THEN m0
    ELSE LET m1 == [m0 EXCEPT !.data[b] = bytes,
                              !.status[b] = "Retrieved",
                              !.pending = {r \in @ : r.block # b}]
         IN
         IF \E c \in BlocksOf(piece) : m1.status[c] # "Retrieved" THEN m1
         ELSE IF DigestMatches(m1.data, piece)
         THEN [m1 EXCEPT
                 !.have = @ \cup {piece},
                 !.ongoing = @ \ {piece},
                 !.written = @ \cup {WriteOf(m1.data, piece)},
                 !.data = [c \in AllBlocks |->
                             IF c[1] = piece THEN <<>> ELSE @[c]]]
         ELSE [m1 EXCEPT
                 !.mismatch = TRUE,
                 !.data = [c \in AllBlocks |->
                             IF c[1] = piece THEN <<>> ELSE @[c]],
                 !.status = [c \in AllBlocks |->
                               IF c[1] = piece THEN "Missing" ELSE @[c]]]

InitManager ==
    /\ legacy = FALSE
    /\ SessionInit
    /\ buffer = <<>>
    /\ wire = <<>>
    /\ msgs = <<>>
    /\ yielded = <<>>
    /\ arg = <<>>
    /\ res = <<>>
    /\ pc = "manager"
    /\ pm = ManagerInit

ManagerSame == UNCHANGED <<pc, sessionVars, buffer, framerVars, arg, res>>

\* add_peer: register or replace a peer's holdings
AddPeer ==
    /\ \E peer \in ManagerPeers, bits \in {{0}, {0, 1}} :
          pm' = Other([pm EXCEPT !.peers = (peer :> bits) @@ @])
    /\ ManagerSame

\* update_peer: one more piece of a registered peer
UpdatePeer ==
    /\ \E peer \in DOMAIN pm.peers, i \in Pieces :
          pm' = Other([pm EXCEPT !.peers[peer] = @ \cup {i}])
    /\ ManagerSame

\* remove_peer: drop a peer's holdings
RemovePeer ==
    /\ \E peer \in DOMAIN pm.peers :
          pm' = Other([pm EXCEPT !.peers = [q \in DOMAIN @ \ {peer} |-> @[q]]])
    /\ ManagerSame

\* a session asks for the next block for its peer
NextRequest ==
    /\ \E peer \in ManagerPeers : pm' = next_request(pm, peer)
    /\ ManagerSame

\* a session hands over the block of a piece message (protocol.py:127-132):
\* any index and offset the remote chose, with the right or other data
OnBlock ==
    /\ \E peer \in ManagerPeers, piece \in Pieces \cup {2},
          begin \in {0, REQUEST_SIZE}, good \in BOOLEAN :
          pm' = on_block_received(pm, peer, piece, begin,
                   IF good /\ <<piece, begin>> \in AllBlocks
                   THEN TrueData(<<piece, begin>>) ELSE BadData)
    /\ ManagerSame

\* the clock is read 150 seconds later
Tick ==
    /\ pm.now < MaxTicks * 150
    /\ pm' = Other([pm EXCEPT !.now = @ + 150])
    /\ ManagerSame

NextManager ==
    AddPeer \/ UpdatePeer \/ RemovePeer \/ NextRequest \/ OnBlock \/ Tick

SpecManager == InitManager /\ [][NextManager]_vars

(***************************************************************************)
(* C14  Digest before disk: whatever blocks the sessions hand over, every  *)
(* write to the output files is the bytes of a whole piece whose digest is *)
(* the expected one, at the piece's offset; and a piece is written only in *)
(* the step that retrieved its last block.                                 *)
(***************************************************************************)
C14_DigestBeforeDisk ==
    \A w \in pm.written :
        /\ Sha1(w.bytes) = expected_digest(w.piece)
        /\ Len(w.bytes) = 2 * Cardinality(BlocksOf(w.piece))
        /\ w.piece \in pm.have

\* piece 0 was written after a delivery of it had failed its digest
C14_Witness ==
    /\ pm.mismatch
    /\ \E w \in pm.written : w.piece = 0

(***************************************************************************)
(* C15  Stale request reassignment: a next_request call for a peer that    *)
(* holds no missing piece and no ongoing piece with a missing block, made  *)
(* when a block requested from another peer has been pending for more than *)
(* 5 minutes, returns a block that has been pending that long; the block   *)
(* stays Pending and its one pending request is now this peer's, issued at *)
(* the time of the call.                                                   *)
(***************************************************************************)
Stale(r) == r.issued_at + 300 < pm.now

NoWorkFor(peer) ==
    /\ ~\E i \in pm.missing : Holds(pm, peer, i)
    /\ ~\E i \in pm.ongoing :
           Holds(pm, peer, i) /\ \E b \in BlocksOf(i) : pm.status[b] = "Missing"

C15_StaleReassigned ==
    [][\A peer \in ManagerPeers :
          (/\ pm'.last.peer = peer
           /\ NoWorkFor(peer)
           /\ \E r \in pm.pending : r.peer # peer /\ Stale(r))
          => LET got == pm'.last.result
                 b == <<got.piece, got.offset>>
             IN  /\ got # NoBlock
                 /\ \E r \in pm.pending : r.block = b /\ Stale(r)
                 /\ pm'.status[b] = "Pending"
                 /\ {r \in pm'.pending : r.block = b}
                       = {[block |-> b, peer |-> peer, issued_at |-> pm.now]}
      ]_vars

\* B, which holds only piece 0, was given block (0, 0, 16384) that had been
\* requested from another peer more than 5 minutes before
C15_Witness ==
    /\ pm.last = [peer |-> "B", from |-> "A", result |-> Block(0, 0)]
    /\ "B" \in DOMAIN pm.peers
    /\ pm.peers["B"] = {0}
    /\ [block |-> <<0, 0>>, peer |-> "B", issued_at |-> pm.now] \in pm.pending

(***************************************************************************)
(* C21  No request while choked: a step writes a request only on a         *)
(* connection where the latest choke or unchoke message the session has    *)
(* handled is an unchoke; none is written before the first unchoke or      *)
(* between a choke and the next unchoke.                                   *)
(***************************************************************************)
C21_NoRequestWhileChoked ==
    "request" \in ev => conn.lastChoke = "Unchoke"

\* a request is written in the step that handled the unchoke, or a bitfield
\* or have after it
C21_Witness ==
    /\ "request" \in ev
    /\ "block" \notin ev
    /\ conn.lastChoke = "Unchoke"
    /\ ~In("choked", my_state)

(***************************************************************************)
(* C22  Unchoke clears the choked flag: on a connection where the latest   *)
(* choke or unchoke message handled is an unchoke, the session is not      *)
(* choked, whatever was handled before that unchoke.                       *)
(***************************************************************************)
C22_UnchokeClears ==
    conn.lastChoke = "Unchoke" => ~In("choked", my_state)

(***************************************************************************)
(* C23  No phantom in-flight request: in the message loop the session has  *)
(* 'pending_request' recorded only when it has written a request since the *)
(* latest piece message; a step in which next_request returned None leaves *)
(* nothing recorded, so that a later message makes the pump ask again.     *)
(***************************************************************************)
C23_NoPhantomInFlight ==
    /\ (pc \in {"read", "req_drain"} /\ In("pending_request", my_state))
          => conn.sincePiece >= 1
    /\ ("next_request" \in ev /\ conn.asked = NoBlock)
          => ~In("pending_request", my_state)

(***************************************************************************)
(* C24  Every piece message reaches the callback: a step that handled a    *)
(* piece message has called on_block_cb with the remote's peer id and the  *)
(* message's index, begin and block, and has not raised, whether or not a  *)
(* request was recorded as in flight.                                      *)
(***************************************************************************)
C24_PieceHandedOver ==
    conn.piece # <<>>
        => /\ conn.cb = <<remote_id>> \o conn.piece
           /\ lastExit # "error"

(***************************************************************************)
(* C25  Holdings are dropped on disconnect: the step in which the message  *)
(* loop of a connection ends, after add_peer or update_peer was called for *)
(* its remote, calls remove_peer.                                          *)
(***************************************************************************)
InMessageLoop(p) == p \in {"read", "req_drain"}

C25_HoldingsDropped ==
    [][(conn.registered /\ InMessageLoop(pc) /\ ~InMessageLoop(pc'))
          => "remove_peer" \in ev']_vars

(***************************************************************************)
(* C26  Fresh state per connection: when the message loop of a connection  *)
(* has started and no message has been handled yet, my_state holds         *)
(* 'choked' exactly once (one unchoke lifts it), holds 'interested', and   *)
(* holds no 'pending_request'.                                             *)
(***************************************************************************)
LoopStarted == pc = "read" /\ ~conn.handled

LaterLoop == InMessageLoop(pc) /\ enqueued - queue >= 2

(***************************************************************************)
(* C27  Cleanup on every exit: the step in which the connection of a       *)
(* dequeued peer ends (the worker leaves it to dequeue again, to wait for  *)
(* a peer, or to terminate) calls queue.task_done and, when the connection *)
(* has an open writer, closes it.                                          *)
(***************************************************************************)
InConnection(p) ==
    p \in {"connect", "hs_drain", "hs_read", "int_drain", "read", "req_drain"}

C27_CleanupOnExit ==
    [][(InConnection(pc) /\ (~InConnection(pc') \/ "dequeue" \in ev'))
          => /\ "task_done" \in ev'
             /\ writer = "open" => "close" \in ev']_vars

(***************************************************************************)
(* SpecCancel: the worker of Spec with a client that also calls the public *)
(* method cancel(). A ValueError of task_done goes to that caller.         *)
(***************************************************************************)
CancelCall ==
    /\ Set([CancelMethod(Cur, pc = "done") EXCEPT !.exc = ""])

NextCancel == Next \/ CancelCall

SpecCancel == Init /\ [][NextCancel]_vars

(***************************************************************************)
(* C28  Queue accounting: the calls of task_done on the peer queue never   *)
(* exceed the peers taken from it: the calls that released a slot          *)
(* (enqueued - unfinished) are at most the peers dequeued (enqueued -      *)
(* queue), and no call is refused for want of an unfinished item.          *)
(***************************************************************************)
C28_QueueAccounting ==
    /\ enqueued - unfinished <= enqueued - queue
    /\ "task_done refused" \notin ev

====
